---------------------------- MODULE Spec2Model ----------------------------
(***************************************************************************)
(* A model of map2loop's DeformationHistory                                *)
(* (src/map2loop/deformation_history.py): the fault and fold summary       *)
(* tables, their population from map geometry, the observation summary,    *)
(* record insertion / removal / lookup and the export filter.              *)
(*                                                                         *)
(* A table (pandas.DataFrame) is a sequence of rows, each row carrying its *)
(* index label, plus the set of columns that were added to the declared    *)
(* schema.  The columns modelled per fault row are the ones the code ever  *)
(* reads or derives: eventId, name, length, the three radii and the three  *)
(* centre coordinates; the columns populate() only fills with a constant   *)
(* default (minAge, colour, avgNormalX, ...) behave like centreX before    *)
(* summarise_data and are left out.                                        *)
(*                                                                         *)
(* pandas behaviour the code relies on and the model reproduces:           *)
(*  - df[col] = Series aligns on the index labels; on a frame with no rows *)
(*    the frame first takes the index of the value;                        *)
(*  - df[col] = dict is a COLUMN assignment (never a row insertion);       *)
(*  - comparisons with a missing value (NaN): == is False, != is True,     *)
(*    >= is False;                                                         *)
(*  - float(Series) works for a one-element Series only (math.sqrt);       *)
(*  - df.at[i, col] = x stores x exactly (the column is upcast).           *)
(*                                                                         *)
(* Geometry is modelled by sets of unit edges of the integer grid: length  *)
(* is the number of edges, dissolve is the set union, bounds are the       *)
(* extreme end-point coordinates.  Square roots and means are kept exact:  *)
(* <<s, k>> in a radius column stands for sqrt(s)/k, <<n, d>> in a centre  *)
(* column for the fraction n/d in lowest terms (<<0, 0>> is NaN).          *)
(***************************************************************************)
EXTENDS Integers, Sequences, FiniteSets

VARIABLES
    faults,                          \* self.faults: the rows of the fault summary
    faultExtra,                      \* columns of self.faults beyond faultColumns
    folds,                           \* self.folds: the rows of the fold summary
    foldExtra,                       \* columns of self.folds beyond foldColumns
    minimum_fault_length_to_export,  \* the export cutoff
    lastCall,                        \* the last method called and its argument
    raised,                          \* the exception that call ended with, or "none"
    returned,                        \* the value that call returned
    calls                            \* how many methods were called so far

vars == <<faults, faultExtra, folds, foldExtra, minimum_fault_length_to_export,
          lastCall, raised, returned, calls>>

---------------------------------------------------------------------------
(* Bounds of the explored inputs *)

MaxFeatures == 2
MaxObs == 3
MaxCalls == 3

Ids == {1, 2}
NameOrder == <<"A", "B">>
Names == {NameOrder[i] : i \in 1..Len(NameOrder)}
CutoffInputs == {-1, 0, 1, 2}
RecordLengths == {1, 3}

---------------------------------------------------------------------------
(* Missing values *)

NaN == -1000
NoName == "<NaN>"
NaNRat == <<0, 0>>
NaNSurd == <<0, 0>>

\* pandas element-wise ==, != and >= on cells that may be missing
PdEq(a, b) == a # NaN /\ b # NaN /\ a = b
PdNe(a, b) == ~PdEq(a, b)
PdGe(a, b) == a # NaN /\ b # NaN /\ a >= b
NameEq(a, b) == a # NoName /\ b # NoName /\ a = b

---------------------------------------------------------------------------
(* Sequence helpers *)

RECURSIVE SumSeq(_)
SumSeq(s) == IF s = <<>> THEN 0 ELSE Head(s) + SumSeq(Tail(s))

RECURSIVE GCD(_, _)
GCD(a, b) == IF b = 0 THEN a ELSE GCD(b, a % b)

SetMin(S) == CHOOSE x \in S : \A y \in S : x <= y
SetMax(S) == CHOOSE x \in S : \A y \in S : x >= y

RECURSIVE Picked(_, _, _)
\* the entries of `catalogue` at the positions in S, from position k on, in order
Picked(catalogue, S, k) ==
    IF k > Len(catalogue) THEN <<>>
    ELSE (IF k \in S THEN <<catalogue[k]>> ELSE <<>>) \o Picked(catalogue, S, k + 1)

\* every selection of at most n entries of `catalogue`, in the catalogue's order
Selections(catalogue, n) ==
    {Picked(catalogue, S, 1) :
        S \in {T \in SUBSET (1..Len(catalogue)) : Cardinality(T) <= n}}

Column(rows, c) == [i \in 1..Len(rows) |-> rows[i][c]]

---------------------------------------------------------------------------
(* Schemas and rows *)

faultColumns ==
    {"eventId", "name", "minAge", "maxAge", "group", "avgDisplacement",
     "avgDownthrowDir", "influenceDirection", "verticalRadius", "horizontalRadius",
     "colour", "centreX", "centreY", "centreZ", "avgSlipDirX", "avgSlipDirY",
     "avgSlipDirZ", "avgNormalX", "avgNormalY", "avgNormalZ", "length"}

foldColumns ==
    {"eventId", "name", "minAge", "maxAge", "periodic", "wavelength", "amplitude",
     "asymmetry", "asymmetryShift", "secondaryWavelength", "secondaryAmplitude"}

InitialCutoff == 500

\* index labels: RangeIndex positions, or strings (the keys of a dict)
IntLabel(i) == [int |-> i, str |-> ""]
StrLabel(k) == [int |-> -1, str |-> k]

\* a row reindexing creates: every cell missing
NaNFaultRow(label) ==
    [idx |-> label, eventId |-> NaN, name |-> NoName, length |-> NaN,
     verticalRadius |-> NaNSurd, horizontalRadius |-> NaNSurd,
     influenceDistance |-> NaNSurd,
     centreX |-> NaNRat, centreY |-> NaNRat, centreZ |-> NaNRat]

NaNFoldRow(label) == [idx |-> label, eventId |-> NaN, name |-> NoName]

BlankRow(table, label) ==
    IF table = "faults" THEN NaNFaultRow(label) ELSE NaNFoldRow(label)

RowsResult(rows) == [kind |-> "rows", rows |-> rows, num |-> 0]
NumResult(n) == [kind |-> "number", rows |-> <<>>, num |-> n]
NoneResult == [kind |-> "None", rows |-> <<>>, num |-> 0]

Call(op, arg) == [op |-> op, arg |-> arg]

Init ==
    /\ faults = <<>>
    /\ faultExtra = {}
    /\ folds = <<>>
    /\ foldExtra = {}
    /\ minimum_fault_length_to_export = InitialCutoff
    /\ lastCall = Call("__init__", <<>>)
    /\ raised = "none"
    /\ returned = NoneResult
    /\ calls = 0

---------------------------------------------------------------------------
(* set_minimum_fault_length / get_minimum_fault_length *)

set_minimum_fault_length ==
    \E length \in CutoffInputs :
        /\ minimum_fault_length_to_export' = length
        /\ lastCall' = Call("set_minimum_fault_length", length)
        /\ raised' = "none"
        /\ returned' = NoneResult
        /\ UNCHANGED <<faults, faultExtra, folds, foldExtra>>

get_minimum_fault_length ==
    /\ lastCall' = Call("get_minimum_fault_length", <<>>)
    /\ raised' = "none"
    /\ returned' = NumResult(minimum_fault_length_to_export)
    /\ UNCHANGED <<faults, faultExtra, folds, foldExtra, minimum_fault_length_to_export>>

---------------------------------------------------------------------------
(* findfault / findfold *)

IntId(i) == [type |-> "int", int |-> i, str |-> ""]
StrId(n) == [type |-> "str", int |-> 0, str |-> n]
OtherId == [type |-> "float", int |-> 0, str |-> ""]
IdInputs == {IntId(i) : i \in Ids} \cup {StrId(n) : n \in Names} \cup {OtherId}

RECURSIVE RowsWhere(_, _, _, _)
\* rows[rows[col] == v], as pandas compares (a missing cell matches nothing)
RowsWhere(rows, col, v, isName) ==
    IF rows = <<>> THEN <<>>
    ELSE LET r == Head(rows)
             hit == IF isName THEN NameEq(r[col], v) ELSE PdEq(r[col], v)
         IN (IF hit THEN <<r>> ELSE <<>>) \o RowsWhere(Tail(rows), col, v, isName)

RECURSIVE RowsWhereNot(_, _, _, _)
\* rows[rows[col] != v]: a missing cell differs from everything, and is kept
RowsWhereNot(rows, col, v, isName) ==
    IF rows = <<>> THEN <<>>
    ELSE LET r == Head(rows)
             keep == IF isName THEN ~NameEq(r[col], v) ELSE PdNe(r[col], v)
         IN (IF keep THEN <<r>> ELSE <<>>) \o RowsWhereNot(Tail(rows), col, v, isName)

findfault ==
    \E id \in IdInputs :
        /\ lastCall' = Call("findfault", id)
        /\ raised' = "none"
        /\ returned' = CASE id.type = "int" -> RowsResult(RowsWhere(faults, "eventId", id.int, FALSE))
                         [] id.type = "str" -> RowsResult(RowsWhere(faults, "name", id.str, TRUE))
                         [] OTHER -> NoneResult
        /\ UNCHANGED <<faults, faultExtra, folds, foldExtra, minimum_fault_length_to_export>>

\* the column findfold filters on for an integer id
FoldIdColumn == "foldId"

findfold ==
    \E id \in IdInputs :
        /\ lastCall' = Call("findfold", id)
        /\ IF id.type = "int"
           THEN IF FoldIdColumn \in foldColumns \cup foldExtra
                THEN /\ raised' = "none"
                     /\ returned' =
                            RowsResult(IF FoldIdColumn = "eventId"
                                       THEN RowsWhere(folds, "eventId", id.int, FALSE)
                                       ELSE <<>>)
                ELSE /\ raised' = "KeyError"
                     /\ returned' = NoneResult
           ELSE /\ raised' = "none"
                /\ returned' = IF id.type = "str"
                               THEN RowsResult(RowsWhere(folds, "name", id.str, TRUE))
                               ELSE NoneResult
        /\ UNCHANGED <<faults, faultExtra, folds, foldExtra, minimum_fault_length_to_export>>

---------------------------------------------------------------------------
(* addFault / addFold *)

DictKeys == <<"name", "eventId", "length">>
NamelessKeys == <<"eventId", "length">>

Record(kind, keys, n, e, l) ==
    [kind |-> kind, keys |-> keys, name |-> n, eventId |-> e, length |-> l]

HasName(rec) == \E i \in 1..Len(rec.keys) : rec.keys[i] = "name"

RecordInputs ==
    {Record("dict", DictKeys, n, e, l) : n \in Names, e \in Ids, l \in RecordLengths}
    \cup {Record("dict", NamelessKeys, NoName, 1, 1),
          Record("DataFrame", DictKeys, "A", 1, 1),
          Record("DataFrame", NamelessKeys, NoName, 1, 1),
          Record("list", <<>>, NoName, 1, 1)}

\* how DataFrame.__setitem__ treats a dict value: pandas >= 1.5 turns it into a
\* Series and reindexes it; older releases demand as many entries as rows
PandasDictSetitem == {"reindex", "length_match"}

\* df[name] = dict on self.faults or self.folds: [rows, extra, raised].  A frame
\* without rows takes the dict's keys as its index; the dict then fills a new
\* column, whose cells the model does not keep
SetColumnFromDict(table, rows, extra, rec, lib) ==
    IF Len(rows) = 0
    THEN [rows |-> [i \in 1..Len(rec.keys) |-> BlankRow(table, StrLabel(rec.keys[i]))],
          extra |-> extra \cup {rec.name}, raised |-> "none"]
    ELSE IF lib = "length_match" /\ Len(rec.keys) # Len(rows)
         THEN [rows |-> rows, extra |-> extra, raised |-> "ValueError"]
         ELSE [rows |-> rows, extra |-> extra \cup {rec.name}, raised |-> "none"]

\* a plausible slip: the "name" check left out, so that fault["name"] raises
AddRecordUnchecked(table, rows, extra, rec, lib) ==
    IF rec.kind \in {"DataFrame", "dict"}
    THEN IF ~HasName(rec)
         THEN [rows |-> rows, extra |-> extra, raised |-> "KeyError"]
         ELSE IF rec.kind = "DataFrame"
              THEN [rows |-> rows, extra |-> extra, raised |-> "TypeError"]
              ELSE SetColumnFromDict(table, rows, extra, rec, lib)
    ELSE [rows |-> rows, extra |-> extra, raised |-> "none"]

\* the body shared by addFault and addFold: [rows, extra, raised]
AddRecord(table, rows, extra, rec, lib) ==
    IF rec.kind \in {"DataFrame", "dict"}
    THEN IF HasName(rec)
         THEN IF rec.kind = "DataFrame"
              \* fault["name"] is a Series: `in index` hashes it and raises
              THEN [rows |-> rows, extra |-> extra, raised |-> "TypeError"]
              ELSE SetColumnFromDict(table, rows, extra, rec, lib)
         ELSE [rows |-> rows, extra |-> extra, raised |-> "none"]
    ELSE [rows |-> rows, extra |-> extra, raised |-> "none"]

addFault ==
    \E fault \in RecordInputs, lib \in PandasDictSetitem :
        LET r == AddRecord("faults", faults, faultExtra, fault, lib)
        IN /\ faults' = r.rows
           /\ faultExtra' = r.extra
           /\ raised' = r.raised
           /\ lastCall' = Call("addFault", fault)
           /\ returned' = NoneResult
           /\ UNCHANGED <<folds, foldExtra, minimum_fault_length_to_export>>

addFold ==
    \E fold \in RecordInputs, lib \in PandasDictSetitem :
        LET r == AddRecord("folds", folds, foldExtra, fold, lib)
        IN /\ folds' = r.rows
           /\ foldExtra' = r.extra
           /\ raised' = r.raised
           /\ lastCall' = Call("addFold", fold)
           /\ returned' = NoneResult
           /\ UNCHANGED <<faults, faultExtra, minimum_fault_length_to_export>>

---------------------------------------------------------------------------
(* removeFaultByName / removeFaultByEventId *)

RemoveNames == Names \cup {"nonexistent"}

removeFaultByName ==
    \E name \in RemoveNames :
        /\ faults' = RowsWhereNot(faults, "name", name, TRUE)
        /\ lastCall' = Call("removeFaultByName", name)
        /\ raised' = "none"
        /\ returned' = NoneResult
        /\ UNCHANGED <<faultExtra, folds, foldExtra, minimum_fault_length_to_export>>

RemoveEventId(rows, eventId) == RowsWhereNot(rows, "eventId", eventId, FALSE)

removeFaultByEventId ==
    \E eventId \in Ids :
        /\ faults' = RemoveEventId(faults, eventId)
        /\ lastCall' = Call("removeFaultByEventId", eventId)
        /\ raised' = "none"
        /\ returned' = NoneResult
        /\ UNCHANGED <<faultExtra, folds, foldExtra, minimum_fault_length_to_export>>

---------------------------------------------------------------------------
(* get_faults_for_export *)

RECURSIVE ShortEnough(_, _)
\* a plausible slip: the comparison turned round
ShortEnough(rows, cutoff) ==
    IF rows = <<>> THEN <<>>
    ELSE (IF PdGe(cutoff, Head(rows).length) THEN <<Head(rows)>> ELSE <<>>)
         \o ShortEnough(Tail(rows), cutoff)

RECURSIVE LongEnough(_, _)
\* rows[rows["length"] >= cutoff]
LongEnough(rows, cutoff) ==
    IF rows = <<>> THEN <<>>
    ELSE (IF PdGe(Head(rows).length, cutoff) THEN <<Head(rows)>> ELSE <<>>)
         \o LongEnough(Tail(rows), cutoff)

\* a plausible slip: the filter assigned back to self.faults
get_faults_for_export_pruning ==
    /\ faults' = LongEnough(faults, minimum_fault_length_to_export)
    /\ returned' = RowsResult(faults')
    /\ lastCall' = Call("get_faults_for_export", <<>>)
    /\ raised' = "none"
    /\ UNCHANGED <<faultExtra, folds, foldExtra, minimum_fault_length_to_export>>

get_faults_for_export ==
    /\ returned' = RowsResult(LongEnough(faults, minimum_fault_length_to_export))
    /\ lastCall' = Call("get_faults_for_export", <<>>)
    /\ raised' = "none"
    /\ UNCHANGED <<faults, faultExtra, folds, foldExtra, minimum_fault_length_to_export>>

---------------------------------------------------------------------------
(* Map geometry: a geometry is a set of unit grid edges <<x, y, dir>>, from *)
(* (x, y) to (x+1, y) for "h" and to (x, y+1) for "v"                       *)

G01 == {<<0, 0, "h">>}                   \* the segment (0,0)-(1,0)
G23 == {<<2, 0, "h">>}                   \* the segment (2,0)-(3,0)
GL  == {<<2, 0, "h">>, <<3, 0, "v">>}    \* (2,0)-(3,0)-(3,1): shares an edge with G23

\* GeoSeries.length
GeomLength(g) == Cardinality(g)

\* GeoSeries.bounds
Bounds(g) ==
    [minx |-> SetMin({e[1] : e \in g}),
     miny |-> SetMin({e[2] : e \in g}),
     maxx |-> SetMax({IF e[3] = "h" THEN e[1] + 1 ELSE e[1] : e \in g}),
     maxy |-> SetMax({IF e[3] = "v" THEN e[2] + 1 ELSE e[2] : e \in g})]

Feature(id, name, g) == [ID |-> id, NAME |-> name, geometry |-> g]
\* the features a map may hold; a map is a selection of them, in this order
MapFeatures ==
    << Feature(1, "A", G01),     \* a fault drawn as one segment
       Feature(2, "A", G23),     \* a second fragment of fault A, with its own ID
       Feature(1, "A", GL),      \* a fragment with the first one's ID, overlapping the second
       Feature(2, "B", G23),     \* another fault
       Feature(1, "B", G01) >>   \* another fault that reuses ID 1
FeatureInputs == Selections(MapFeatures, MaxFeatures)

RECURSIVE FeaturesWithId(_, _)
\* faults_map_data[faults_map_data["ID"] == eventId]
FeaturesWithId(features, eventId) ==
    IF features = <<>> THEN <<>>
    ELSE (IF PdEq(Head(features).ID, eventId) THEN <<Head(features)>> ELSE <<>>)
         \o FeaturesWithId(Tail(features), eventId)

RECURSIVE FeaturesNamed(_, _)
FeaturesNamed(features, name) ==
    IF features = <<>> THEN <<>>
    ELSE (IF Head(features).NAME = name THEN <<Head(features)>> ELSE <<>>)
         \o FeaturesNamed(Tail(features), name)

\* a plausible slip: the last ID of the group kept instead of the first
DissolveGroupLastId(group) ==
    Feature(group[Len(group)].ID, group[1].NAME,
            UNION {group[i].geometry : i \in 1..Len(group)})

\* one dissolved feature: the first ID of the group, the union of its geometries
DissolveGroup(group) ==
    Feature(group[1].ID, group[1].NAME,
            UNION {group[i].geometry : i \in 1..Len(group)})

RECURSIVE DissolveFrom(_, _)
DissolveFrom(features, k) ==
    IF k > Len(NameOrder) THEN <<>>
    ELSE LET group == FeaturesNamed(features, NameOrder[k])
         IN (IF group = <<>> THEN <<>> ELSE <<DissolveGroup(group)>>)
            \o DissolveFrom(features, k + 1)

\* a plausible slip: the fragments not merged, one row per fragment
DissolveUnmerged(features) == features

\* faults_map_data.dissolve(by="NAME", as_index=False).reset_index(drop=True):
\* one feature per NAME, in NAME order
Dissolve(features) == DissolveFrom(features, 1)

---------------------------------------------------------------------------
(* populate *)

\* the row a column-wise fill leaves at index label `label`: the Series columns
\* (eventId, name, length) align on the label, the scalar columns broadcast
PopulatedRow(label, data) ==
    LET has == label.str = "" /\ label.int >= 0 /\ label.int < Len(data)
        d == data[label.int + 1]
    IN [idx |-> label,
        eventId |-> IF has THEN d.ID ELSE NaN,
        name |-> IF has THEN d.NAME ELSE NoName,
        length |-> IF has THEN GeomLength(d.geometry) ELSE NaN,
        verticalRadius |-> <<0, 1>>, horizontalRadius |-> <<0, 1>>,
        influenceDistance |-> <<0, 1>>,
        centreX |-> <<0, 1>>, centreY |-> <<0, 1>>, centreZ |-> <<0, 1>>]

\* the index populate's first column assignment leaves: a frame without rows
\* takes the index of the assigned Series, any other frame keeps its own
PopulatedIndex(rows, data) ==
    IF Len(rows) = 0 THEN [i \in 1..Len(data) |-> IntLabel(i - 1)]
    ELSE Column(rows, "idx")

FillColumns(rows, data) ==
    LET index == PopulatedIndex(rows, data)
    IN [i \in 1..Len(index) |-> PopulatedRow(index[i], data)]

\* xdist*xdist + ydist*ydist of a bounds row
DiagonalSquared(b) ==
    (b.maxx - b.minx) * (b.maxx - b.minx) + (b.maxy - b.miny) * (b.maxy - b.miny)

RECURSIVE RadiusLoop(_, _, _)
\* the loop over self.faults.iterrows(): [rows, raised].  math.sqrt needs a
\* one-element Series: no or several features of that ID raise TypeError
RadiusLoop(rows, i, features) ==
    IF i > Len(rows) THEN [rows |-> rows, raised |-> "none"]
    ELSE LET m == FeaturesWithId(features, rows[i].eventId)
         IN IF Len(m) # 1 THEN [rows |-> rows, raised |-> "TypeError"]
            ELSE LET d2 == DiagonalSquared(Bounds(m[1].geometry))
                 IN RadiusLoop([rows EXCEPT ![i].verticalRadius = <<d2, 1>>,
                                            ![i].horizontalRadius = <<d2, 2>>,
                                            ![i].influenceDistance = <<d2, 4>>],
                               i + 1, features)

PopulateColumns == {"supergroup", "influenceDistance"}

\* populate on a map that is not empty: [rows, raised].  (The frame it stores in
\* self.stratigraphicUnits is read by no method and is not modelled.)
Populate(rows, features) == RadiusLoop(FillColumns(rows, Dissolve(features)), 1, features)

populateFrom(maps) ==
    \E faults_map_data \in maps :
        /\ lastCall' = Call("populate", faults_map_data)
        /\ returned' = NoneResult
        /\ IF Len(faults_map_data) = 0
           THEN /\ raised' = "none"
                /\ UNCHANGED <<faults, faultExtra>>
           ELSE LET r == Populate(faults, faults_map_data)
                IN /\ faults' = r.rows
                   /\ faultExtra' = faultExtra \cup PopulateColumns
                   /\ raised' = r.raised
        /\ UNCHANGED <<folds, foldExtra, minimum_fault_length_to_export>>

populate == populateFrom(FeatureInputs)

\* the maps in which features of different NAME never share an ID
DistinctIdInputs ==
    {m \in FeatureInputs :
        \A i, j \in 1..Len(m) : m[i].ID = m[j].ID => m[i].NAME = m[j].NAME}

populateDistinctIds == populateFrom(DistinctIdInputs)

---------------------------------------------------------------------------
(* summarise_data *)

Observation(id, x, y, z) == [ID |-> id, X |-> x, Y |-> y, Z |-> z]
\* the observations a survey may hold; a table of observations is a selection
FieldObservations ==
    << Observation(1, 0, 0, 0),
       Observation(1, 2, 4, 1),
       Observation(2, 2, 2, 2),
       Observation(2, 5, 0, 2),
       Observation(1, 4, 4, 4) >>
ObservationInputs == Selections(FieldObservations, MaxObs)

RECURSIVE ObservationsOf(_, _)
\* fault_observations[fault_observations["ID"] == id]
ObservationsOf(obs, id) ==
    IF obs = <<>> THEN <<>>
    ELSE (IF PdEq(Head(obs).ID, id) THEN <<Head(obs)>> ELSE <<>>)
         \o ObservationsOf(Tail(obs), id)

\* numpy.mean of a column: an exact fraction in lowest terms, NaN when empty
numpy_mean(xs) ==
    IF Len(xs) = 0 THEN NaNRat
    ELSE LET s == SumSeq(xs)
             g == GCD(s, Len(xs))
         IN <<s \div g, Len(xs) \div g>>

RECURSIVE PruneLoop(_, _, _)
\* the first loop: id_list is fixed before it, removals act on the current table
PruneLoop(rows, id_list, obs) ==
    IF id_list = <<>> THEN rows
    ELSE PruneLoop(IF Len(ObservationsOf(obs, Head(id_list))) < 2
                   THEN RemoveEventId(rows, Head(id_list))
                   ELSE rows,
                   Tail(id_list), obs)

\* a plausible slip: the mean taken over every observation, whatever its ID
CentredOnAll(row, obs) ==
    [row EXCEPT !.centreX = numpy_mean(Column(obs, "X")),
                !.centreY = numpy_mean(Column(obs, "Y")),
                !.centreZ = numpy_mean(Column(obs, "Z"))]

\* the second loop: the centre of every row left
Centred(row, obs) ==
    LET o == ObservationsOf(obs, row.eventId)
    IN [row EXCEPT !.centreX = numpy_mean(Column(o, "X")),
                   !.centreY = numpy_mean(Column(o, "Y")),
                   !.centreZ = numpy_mean(Column(o, "Z"))]

\* (id_list is the eventId column without its repeats: removing an id a second
\* time removes nothing, so the column itself serves)
Summarise(rows, obs) ==
    LET kept == PruneLoop(rows, Column(rows, "eventId"), obs)
    IN [i \in 1..Len(kept) |-> Centred(kept[i], obs)]

summarise_data ==
    \E fault_observations \in ObservationInputs :
        /\ faults' = Summarise(faults, fault_observations)
        /\ lastCall' = Call("summarise_data", fault_observations)
        /\ raised' = "none"
        /\ returned' = NoneResult
        /\ UNCHANGED <<faultExtra, folds, foldExtra, minimum_fault_length_to_export>>

---------------------------------------------------------------------------

\* one method call at a time (the class is used single-threaded), at most
\* MaxCalls of them
Called(method) ==
    /\ calls < MaxCalls
    /\ calls' = calls + 1
    /\ method

Next ==
    \/ Called(populate)
    \/ Called(summarise_data)
    \/ Called(set_minimum_fault_length)
    \/ Called(get_minimum_fault_length)
    \/ Called(findfault)
    \/ Called(findfold)
    \/ Called(addFault)
    \/ Called(addFold)
    \/ Called(removeFaultByName)
    \/ Called(removeFaultByEventId)
    \/ Called(get_faults_for_export)

Spec == Init /\ [][Next]_vars

\* the same class, driven with maps whose IDs belong to one NAME each
NextDistinctIds ==
    \/ Called(populateDistinctIds)
    \/ Called(summarise_data)
    \/ Called(set_minimum_fault_length)
    \/ Called(addFault)
    \/ Called(addFold)
    \/ Called(removeFaultByName)
    \/ Called(removeFaultByEventId)

SpecDistinctIds == Init /\ [][NextDistinctIds]_vars

---------------------------------------------------------------------------
(* Properties *)

\* the registry as __init__ leaves its tables
Fresh == faults = <<>> /\ faultExtra = {} /\ folds = <<>> /\ foldExtra = {}

TablesUnchanged == UNCHANGED <<faults, faultExtra, folds, foldExtra>>

RowsNamed(rows, n) == {i \in 1..Len(rows) : rows[i].name = n}

(* ---- C1 ---- *)

\* C1: add_fault with a record whose name an existing row holds leaves the number
\* of rows unchanged, exactly one row with that name, that row's fields equal to
\* the record's, and the table's columns as they were.
C1_ReplaceOnConflict ==
    [][(/\ lastCall'.op = "addFault"
        /\ lastCall'.arg.kind = "dict"
        /\ HasName(lastCall'.arg)
        /\ RowsNamed(faults, lastCall'.arg.name) # {})
       => LET rec == lastCall'.arg
          IN /\ Len(faults') = Len(faults)
             /\ Cardinality(RowsNamed(faults', rec.name)) = 1
             /\ \A i \in RowsNamed(faults', rec.name) :
                    /\ faults'[i].eventId = rec.eventId
                    /\ faults'[i].length = rec.length
             /\ faultExtra' = faultExtra]_vars

(* ---- C2 ---- *)

FragmentsNamed(map, n) == {i \in 1..Len(map) : map[i].NAME = n}

\* the squared diagonal of the bounding box of all the fragments named n
CombinedDiagonalSquared(map, n) ==
    LET xs == UNION {{Bounds(map[i].geometry).minx, Bounds(map[i].geometry).maxx} :
                        i \in FragmentsNamed(map, n)}
        ys == UNION {{Bounds(map[i].geometry).miny, Bounds(map[i].geometry).maxy} :
                        i \in FragmentsNamed(map, n)}
        dx == SetMax(xs) - SetMin(xs)
        dy == SetMax(ys) - SetMin(ys)
    IN dx * dx + dy * dy

\* C2: after populate on a fresh registry every fault row has verticalRadius equal
\* to the diagonal of the bounding box of all the input fragments of that fault
\* taken together, horizontalRadius half of it and influenceDistance a quarter.
C2_RadiiFromCombinedBounds ==
    (lastCall.op = "populate" /\ calls = 1 /\ raised = "none")
    => \A i \in 1..Len(faults) :
           LET d2 == CombinedDiagonalSquared(lastCall.arg, faults[i].name)
           IN /\ faults[i].verticalRadius = <<d2, 1>>
              /\ faults[i].horizontalRadius = <<d2, 2>>
              /\ faults[i].influenceDistance = <<d2, 4>>

(* ---- C3 ---- *)

NamesIn(map) == {map[i].NAME : i \in 1..Len(map)}
FirstIdNamed(map, n) == map[SetMin(FragmentsNamed(map, n))].ID
SumOfLengths(map, n) ==
    SumSeq([i \in 1..Len(map) |->
               IF map[i].NAME = n THEN GeomLength(map[i].geometry) ELSE 0])
MergedLength(map, n) ==
    Cardinality(UNION {map[i].geometry : i \in FragmentsNamed(map, n)})
Overlapping(map, n) ==
    \E i, j \in FragmentsNamed(map, n) :
        i # j /\ map[i].geometry \cap map[j].geometry # {}

\* what populate leaves on a fresh registry, but for the length of the rows
OneRowPerName(map, rows) ==
    /\ Len(rows) = Cardinality(NamesIn(map))
    /\ \A n \in NamesIn(map) :
           /\ Cardinality(RowsNamed(rows, n)) = 1
           /\ \A i \in RowsNamed(rows, n) : rows[i].eventId = FirstIdNamed(map, n)

\* C3 (as claimed): on a fresh registry populate yields one row per distinct NAME,
\* with that name, the dissolved feature's ID, and a length equal to the sum of
\* the lengths of all the fragments of that NAME; an empty map leaves the table
\* empty.
C3_LengthIsSumOfFragments ==
    [][(lastCall'.op = "populate" /\ Fresh)
       => LET map == lastCall'.arg
          IN IF map = <<>> THEN faults' = <<>>
             ELSE /\ OneRowPerName(map, faults')
                  /\ \A n \in NamesIn(map) : \A i \in RowsNamed(faults', n) :
                         faults'[i].length = SumOfLengths(map, n)]_vars

\* C3 (amended): on a fresh registry populate yields one row per distinct NAME,
\* with that name, the ID of the first fragment of that NAME, and the length of
\* the merged geometry, which is the sum of the fragment lengths when no two
\* fragments of that NAME overlap; an empty map leaves the table empty.
C3_LengthIsMergedLength ==
    [][(lastCall'.op = "populate" /\ Fresh)
       => LET map == lastCall'.arg
          IN IF map = <<>> THEN faults' = <<>>
             ELSE /\ OneRowPerName(map, faults')
                  /\ \A n \in NamesIn(map) : \A i \in RowsNamed(faults', n) :
                         /\ faults'[i].length = MergedLength(map, n)
                         /\ ~Overlapping(map, n)
                                => faults'[i].length = SumOfLengths(map, n)]_vars

\* a fresh registry populated with two fragments of one fault that do not overlap
C3_Witness ==
    /\ lastCall.op = "populate"
    /\ calls = 1
    /\ raised = "none"
    /\ Len(lastCall.arg) = 2
    /\ NamesIn(lastCall.arg) = {"A"}
    /\ ~Overlapping(lastCall.arg, "A")
    /\ Len(faults) = 1
    /\ faults[1].length = 2

(* ---- C4 ---- *)

Strip(row) == [idx |-> row.idx, eventId |-> row.eventId, name |-> row.name,
               length |-> row.length]

CountFor(obs, id) == Cardinality({k \in 1..Len(obs) : id # NaN /\ obs[k].ID = id})

\* C4: after summarise_data the table holds exactly the faults it held before that
\* have at least two observations of their eventId, in the same order: the others
\* are removed, none is added.
C4_ExactlyConstrainedFaultsRemain ==
    [][lastCall'.op = "summarise_data"
       => LET obs == lastCall'.arg
              keep == {i \in 1..Len(faults) : CountFor(obs, faults[i].eventId) >= 2}
              kept == Picked(faults, keep, 1)
          IN /\ Len(faults') = Len(kept)
             /\ \A i \in 1..Len(kept) : Strip(faults'[i]) = Strip(kept[i])]_vars

(* ---- C5 ---- *)

\* c is the fraction sum(xs) / Len(xs); of no value at all, the missing value
IsMeanOf(c, xs) ==
    IF Len(xs) = 0 THEN c = NaNRat
    ELSE c[2] > 0 /\ c[1] * Len(xs) = SumSeq(xs) * c[2]

OwnValues(obs, id, axis) ==
    LET own == Picked(obs, {k \in 1..Len(obs) : id # NaN /\ obs[k].ID = id}, 1)
    IN [k \in 1..Len(own) |-> own[k][axis]]

\* C5: after summarise_data every row left has its centre at the mean of the
\* coordinates of the observations of its own eventId, and all its other fields
\* as before the call.
C5_CentreIsMeanOfOwnObservations ==
    [][lastCall'.op = "summarise_data"
       => \A i \in 1..Len(faults') :
              LET row == faults'[i]
                  obs == lastCall'.arg
              IN /\ IsMeanOf(row.centreX, OwnValues(obs, row.eventId, "X"))
                 /\ IsMeanOf(row.centreY, OwnValues(obs, row.eventId, "Y"))
                 /\ IsMeanOf(row.centreZ, OwnValues(obs, row.eventId, "Z"))
                 /\ \E j \in 1..Len(faults) :
                        row = [faults[j] EXCEPT !.centreX = row.centreX,
                                                !.centreY = row.centreY,
                                                !.centreZ = row.centreZ]]_vars

\* fault 1 summarised from its two observations while the table of observations
\* also holds one of fault 2
C5_Witness ==
    /\ lastCall.op = "summarise_data"
    /\ \E k \in 1..Len(lastCall.arg) : lastCall.arg[k].ID = 2
    /\ \E i \in 1..Len(faults) :
           /\ faults[i].eventId = 1
           /\ faults[i].centreX = <<1, 1>>
           /\ faults[i].centreY = <<2, 1>>
           /\ faults[i].centreZ = <<1, 2>>
           /\ faults[i].verticalRadius # <<0, 1>>

(* ---- C6 ---- *)

\* C6: find_fold with an integer id does not fail and returns exactly the fold
\* rows whose eventId equals the id.
C6_FindFoldByEventId ==
    (lastCall.op = "findfold" /\ lastCall.arg.type = "int")
    => /\ raised = "none"
       /\ returned = RowsResult(Picked(folds,
                         {i \in 1..Len(folds) : folds[i].eventId = lastCall.arg.int}, 1))

(* ---- C7 ---- *)

AllCutoffs == CutoffInputs \cup {InitialCutoff}

RowSet(rows) == {rows[i] : i \in 1..Len(rows)}

\* C7: the rows exported are exactly the rows whose length is at least the cutoff,
\* and for cutoffs c1 <= c2 the rows exported under c2 are among those exported
\* under c1, so that raising the cutoff never exports more rows.
C7_CutoffMonotone ==
    /\ lastCall.op = "get_faults_for_export"
       => returned.rows =
              Picked(faults, {i \in 1..Len(faults) :
                                 /\ faults[i].length # NaN
                                 /\ faults[i].length >= minimum_fault_length_to_export}, 1)
    /\ \A c1, c2 \in AllCutoffs :
           c1 <= c2 => /\ RowSet(LongEnough(faults, c2)) \subseteq RowSet(LongEnough(faults, c1))
                       /\ Len(LongEnough(faults, c2)) <= Len(LongEnough(faults, c1))

\* an export, under a cutoff set by set_minimum_fault_length, that returns one
\* fault and leaves a shorter one out
C7_Witness ==
    /\ lastCall.op = "get_faults_for_export"
    /\ minimum_fault_length_to_export \in CutoffInputs
    /\ Len(returned.rows) = 1
    /\ \E i \in 1..Len(faults) :
           faults[i].length # NaN /\ faults[i].length < minimum_fault_length_to_export

(* ---- C8 ---- *)

\* C8: get_faults_for_export changes neither table nor the cutoff, two calls in a
\* row return the same rows, and set_minimum_fault_length changes no table.
C8_ExportIsAView ==
    [][/\ lastCall'.op = "get_faults_for_export"
          => /\ TablesUnchanged
             /\ UNCHANGED minimum_fault_length_to_export
             /\ lastCall.op = "get_faults_for_export" => returned' = returned
       /\ lastCall'.op = "set_minimum_fault_length" => TablesUnchanged]_vars

\* an export that left out a fault which is still in the table
C8_Witness ==
    /\ lastCall.op = "get_faults_for_export"
    /\ \E i \in 1..Len(faults) :
           /\ faults[i].length # NaN
           /\ faults[i].length < minimum_fault_length_to_export
    /\ Len(returned.rows) < Len(faults)

(* ---- C9 ---- *)

\* a mapping without a name field, or a value that is no mapping
Malformed(rec) == ~HasName(rec) \/ rec.kind \notin {"dict", "DataFrame"}

\* C9: add_fault and add_fold given a malformed record raise nothing and leave
\* both tables exactly as they were.
C9_MalformedRecordIsSkipped ==
    [][(lastCall'.op \in {"addFault", "addFold"} /\ Malformed(lastCall'.arg))
       => (TablesUnchanged /\ raised' = "none")]_vars

\* a record without a name offered to a table that holds a fault
C9_Witness ==
    /\ lastCall.op = "addFault"
    /\ lastCall.arg.kind = "dict"
    /\ ~HasName(lastCall.arg)
    /\ Len(faults) > 0
    /\ faults[1].eventId # NaN

(* ---- C10 ---- *)

\* no integer id is the eventId of two rows (a missing eventId is no id)
UniqueEventIds(rows) ==
    \A i, j \in 1..Len(rows) : i # j => ~PdEq(rows[i].eventId, rows[j].eventId)

=============================================================================
